---- MODULE Spec2Model ----
(***************************************************************************)
(* Model of test1.py: the Box upload flow (class Box: construction,        *)
(* authentication, size-based upload routing, bulk traversal) and the      *)
(* GoPro capture-acquisition flow (async main).                            *)
(*                                                                         *)
(* Calls into the two vendor SDKs and into the operating system are the    *)
(* environment: each may return or raise, and the model takes both.        *)
(***************************************************************************)
EXTENDS Integers, Sequences, FiniteSets, TLC

VARIABLES
    entry,      \* which public entry point this run exercises
    env,        \* module globals BOX_CLIENT_ID, BOX_CLIENT_SECRET, BOX_ENTERPRISE_ID
    box,        \* the fields of the Box instance (self)
    pc,         \* position of the upload flow
    result,     \* how the entry point ended: "running", "returned", "raised"
    tree,       \* the directory tree os.walk lists
    walk,       \* the (root, files) pairs os.walk yields
    wi,         \* index of the current pair of walk
    fi,         \* index of the current file of the current pair
    calls,      \* source paths upload_all_files_to_box passed to upload_file_to_box
    caught,     \* exceptions caught by the per-file handler of upload_all_files_to_box
    rframe,     \* locals of the running upload_file_to_box call
    hframe,     \* locals of the running upload helper call
    request,    \* the upload request handed to the Box SDK by the running helper
    session,    \* the WirelessGoPro session: "none", "open", "closed"
    mpc,        \* position of main()
    manifest,   \* resp.data.media: a sequence of groups, each a sequence of camera paths
    gi,         \* index of the current group
    fj,         \* index of the current file of the current group
    issued,     \* camera operations issued so far, in order
    outcomes,   \* outcome of each completed camera operation, in order
    inflight,   \* camera operations issued and not yet completed
    mresult     \* how main() ended: "running", "returned", "raised"

uvars == <<entry, env, box, pc, result, tree, walk, wi, fi, calls, caught,
           rframe, hframe, request>>
mvars == <<session, mpc, manifest, gi, fj, issued, outcomes, inflight, mresult>>
vars == <<entry, env, box, pc, result, tree, walk, wi, fi, calls, caught,
          rframe, hframe, request,
          session, mpc, manifest, gi, fj, issued, outcomes, inflight, mresult>>

(***************************************************************************)
(* Values                                                                  *)
(***************************************************************************)

\* Python's None; no file name or credential is this string.
None == "None"

\* Python truthiness of an optional string: None and "" are falsy.
Truthy(v) == v # None /\ v # ""

\* a or b
PyOr(a, b) == IF Truthy(a) THEN a ELSE b

\* 20 * 1024 * 1024
Threshold == 20 * 1024 * 1024

\* Bounds of the model.
MaxDepth == 2
MaxFiles == 3

\* File sizes os.path.getsize may report: both sides of the threshold.
Sizes == {0, Threshold - 1, Threshold, Threshold + 1}

\* Base names of the files of a directory, in listing order.
NameOf == <<"GX01.MP4", "GX02.MP4", "GX03.MP4", "GX04.MP4", "GX05.MP4">>

\* Destination names a direct caller may pass.
DestNames == {None, "", "clip.mp4"}

\* Destination folder ids.
videos_folder_box_id == "303832684570"
FolderIds == {"0", videos_folder_box_id}

\* os.path.join(root, name), os.path.basename(path); a path is its components.
Join(root, name) == Append(root, name)
Basename(path) == path[Len(path)]

(***************************************************************************)
(* The directory tree and os.walk                                          *)
(***************************************************************************)

RECURSIVE SumSeq(_)
SumSeq(s) == IF s = <<>> THEN 0 ELSE s[1] + SumSeq(Tail(s))

\* A tree is a chain of nested directories: tree[d + 1] is the number of
\* regular files of the directory at depth d.
\* <<>> is a top directory that does not exist.
Trees ==
    { t \in UNION { [1..n -> 0..MaxFiles] : n \in 0..(MaxDepth + 1) } :
        SumSeq(t) <= MaxFiles }

\* os.listdir split into sub-directories and other entries, as os.walk does.
Subdirs(t, dir) == IF Len(dir) < Len(t) THEN <<"sub">> ELSE <<>>
Files(t, dir) == SubSeq(NameOf, 1, t[Len(dir)])

\* The directory at depth d below top.
DirAt(top, d) == top \o [k \in 1..d |-> "sub"]

\* The regular files of the tree, by full path.
RegularFiles(t, top) ==
    UNION { { Join(DirAt(top, d), NameOf[i]) : i \in 1..t[d + 1] } :
            d \in 0..(Len(t) - 1) }

\* os.walk(top), top-down: the directory itself, then each sub-directory.
\* subs = <<>> starts a directory; otherwise subs are the sub-directories of
\* dir still to descend into.
RECURSIVE WalkFrom(_, _, _)
WalkFrom(t, dir, subs) ==
    IF subs = <<>>
    THEN <<[root |-> dir, files |-> Files(t, dir)]>>
         \o (IF Subdirs(t, dir) = <<>> THEN <<>>
             ELSE WalkFrom(t, dir, Subdirs(t, dir)))
    ELSE WalkFrom(t, Join(dir, subs[1]), <<>>)
         \o (IF Tail(subs) = <<>> THEN <<>> ELSE WalkFrom(t, dir, Tail(subs)))

\* A walk that lists the top directory and descends nowhere.
OsWalkTopOnly(t, top) ==
    IF t = <<>> THEN <<>> ELSE <<[root |-> top, files |-> Files(t, top)]>>

\* A top directory that does not exist (t = <<>>) yields nothing.
OsWalk(t, top) == IF t = <<>> THEN <<>> ELSE WalkFrom(t, top, <<>>)

(***************************************************************************)
(* The upload flow: class Box                                              *)
(***************************************************************************)

\* An absent upload result (None) and an uploaded-file descriptor.
NoResult == [kind |-> "None"]
Descriptor(id, name) == [kind |-> "File", id |-> id, name |-> name]

NoRequest == [kind |-> "None"]

IdleRouter ==
    [source_file_path |-> <<>>, dest_file_name |-> None, dest_folder_id |-> None,
     file_size |-> -1, uploaded_file |-> NoResult, invoked |-> <<>>, exc |-> None]

IdleHelper ==
    [fn |-> None, file_path |-> <<>>, folder_id |-> None, name_arg |-> None,
     new_file_name |-> None, file_size |-> -1, ret |-> NoResult, exc |-> None]

EnvValues(name) == {None, name}

Envs ==
    [BOX_CLIENT_ID : EnvValues("env-client-id"),
     BOX_CLIENT_SECRET : EnvValues("env-client-secret"),
     BOX_ENTERPRISE_ID : EnvValues("env-enterprise-id")]

\* Constructor arguments: the script passes none; a direct caller may.
NoOverrides == [client_id |-> None, client_secret |-> None, enterprise_id |-> None]
Overrides(e) ==
    IF e = "script" THEN {NoOverrides}
    ELSE [client_id : {None, "arg-client-id"},
          client_secret : {None, "arg-client-secret"},
          enterprise_id : {None}]

Entries == {"script", "router", "small", "large"}

Init ==
    /\ entry \in Entries
    /\ env \in Envs
    /\ box = [client_id |-> None, client_secret |-> None, enterprise_id |-> None,
              client |-> None, auth |-> None]
    /\ pc = "new"
    /\ result = "running"
    /\ tree = <<>>
    /\ walk = <<>>
    /\ wi = 0
    /\ fi = 0
    /\ calls = <<>>
    /\ caught = 0
    /\ rframe = IdleRouter
    /\ hframe = IdleHelper
    /\ request = NoRequest
    /\ session = "none"
    /\ mpc = "idle"
    /\ manifest = <<>>
    /\ gi = 0
    /\ fj = 0
    /\ issued = <<>>
    /\ outcomes = <<>>
    /\ inflight = {}
    /\ mresult = "idle"

\* Box.__init__ up to the call of authenticate.
Construct ==
    /\ pc = "new"
    /\ \E o \in Overrides(entry) :
         box' = [client_id |-> PyOr(o.client_id, env.BOX_CLIENT_ID),
                 client_secret |-> PyOr(o.client_secret, env.BOX_CLIENT_SECRET),
                 enterprise_id |-> PyOr(o.enterprise_id, env.BOX_ENTERPRISE_ID),
                 client |-> None, auth |-> None]
    /\ pc' = "authenticate"
    /\ UNCHANGED <<entry, env, result, tree, walk, wi, fi, calls, caught,
                   rframe, hframe, request, mvars>>

\* The try block of authenticate: CCGConfig, BoxCCGAuth, BoxClient. The SDK
\* constructors are given the stored credentials unchecked; whether they
\* raise is the SDK's choice.
Authenticate ==
    /\ pc = "authenticate"
    /\ \E o \in {"ok", "raise_before_auth", "raise_in_client"} :
         /\ box' = [box EXCEPT
                      !.auth = IF o = "raise_before_auth" THEN None ELSE "BoxCCGAuth",
                      !.client = IF o = "ok" THEN "BoxClient" ELSE None]
         /\ pc' = IF o = "ok" THEN "authenticated" ELSE "auth_except"
    /\ UNCHANGED <<entry, env, result, tree, walk, wi, fi, calls, caught,
                   rframe, hframe, request, mvars>>

\* An except clause that logs and swallows.
AuthExceptSwallows == "authenticated"

\* The except clause of authenticate: print, then raise.
AuthExceptTarget == "uncaught"

AuthExcept ==
    /\ pc = "auth_except"
    /\ pc' = AuthExceptTarget
    /\ UNCHANGED <<entry, env, box, result, tree, walk, wi, fi, calls, caught,
                   rframe, hframe, request, mvars>>

\* An exception nothing catches leaves the entry point.
Uncaught ==
    /\ pc = "uncaught"
    /\ pc' = "done"
    /\ result' = "raised"
    /\ UNCHANGED <<entry, env, box, tree, walk, wi, fi, calls, caught,
                   rframe, hframe, request, mvars>>

NewRouter(path, name, folder) ==
    [IdleRouter EXCEPT !.source_file_path = path, !.dest_file_name = name,
                       !.dest_folder_id = folder]

NewHelper(fn, path, folder, name) ==
    [IdleHelper EXCEPT !.fn = fn, !.file_path = path, !.folder_id = folder,
                       !.name_arg = name]

\* Paths a direct caller may pass.
DirectPaths == { <<"to_upload", NameOf[1]>>, <<"to_upload", "sub", NameOf[2]>> }

\* box.upload_all_files_to_box("to_upload", box.videos_folder_box_id): os.walk
\* lists the tree.
CallUploadAll ==
    /\ pc = "authenticated"
    /\ entry = "script"
    /\ \E t \in Trees :
         /\ tree' = t
         /\ walk' = OsWalk(t, <<"to_upload">>)
    /\ wi' = 1
    /\ fi' = 1
    /\ pc' = "walk"
    /\ UNCHANGED <<entry, env, box, result, calls, caught, rframe, hframe,
                   request, mvars>>

\* A direct call of upload_file_to_box.
CallRouter ==
    /\ pc = "authenticated"
    /\ entry = "router"
    /\ \E p \in DirectPaths, n \in DestNames, f \in FolderIds :
         rframe' = NewRouter(p, n, f)
    /\ pc' = "router_getsize"
    /\ UNCHANGED <<entry, env, box, result, tree, walk, wi, fi, calls, caught,
                   hframe, request, mvars>>

\* A direct call of upload_small_file_to_folder(file_path, folder_id, new_name).
CallSmall ==
    /\ pc = "authenticated"
    /\ entry = "small"
    /\ \E p \in DirectPaths, n \in DestNames, f \in FolderIds :
         hframe' = NewHelper("small", p, f, n)
    /\ pc' = "small_name"
    /\ UNCHANGED <<entry, env, box, result, tree, walk, wi, fi, calls, caught,
                   rframe, request, mvars>>

\* A direct call of upload_large_file_to_folder(file_path, file_name, parent_folder_id).
CallLarge ==
    /\ pc = "authenticated"
    /\ entry = "large"
    /\ \E p \in DirectPaths, n \in DestNames, f \in FolderIds :
         hframe' = NewHelper("large", p, f, n)
    /\ pc' = "large_getsize"
    /\ UNCHANGED <<entry, env, box, result, tree, walk, wi, fi, calls, caught,
                   rframe, request, mvars>>

(***************************************************************************)
(* upload_all_files_to_box                                                 *)
(***************************************************************************)

\* for root, _, files in os.walk(source_folder): exhausted, the method returns.
WalkReturn ==
    /\ pc = "walk"
    /\ wi > Len(walk)
    /\ pc' = "done"
    /\ result' = "returned"
    /\ UNCHANGED <<entry, env, box, tree, walk, wi, fi, calls, caught,
                   rframe, hframe, request, mvars>>

\* for file_name in files: exhausted, the next directory.
WalkNextDir ==
    /\ pc = "walk"
    /\ wi <= Len(walk)
    /\ fi > Len(walk[wi].files)
    /\ wi' = wi + 1
    /\ fi' = 1
    /\ UNCHANGED <<entry, env, box, pc, result, tree, walk, calls, caught,
                   rframe, hframe, request, mvars>>

\* The try body: file_path = os.path.join(root, file_name), then
\* upload_file_to_box(file_path, file_name, dest_folder_id).
WalkCallRouter ==
    /\ pc = "walk"
    /\ wi <= Len(walk)
    /\ fi <= Len(walk[wi].files)
    /\ LET file_name == walk[wi].files[fi]
           file_path == Join(walk[wi].root, file_name)
       IN  /\ calls' = Append(calls, file_path)
           /\ rframe' = NewRouter(file_path, file_name, videos_folder_box_id)
    /\ pc' = "router_getsize"
    /\ UNCHANGED <<entry, env, box, result, tree, walk, wi, fi, caught,
                   hframe, request, mvars>>

\* A handler that lets the exception go.
WalkExceptPropagates == "uncaught"

\* except Exception as e: print; the loop goes on.
WalkExceptTarget == "walk"

WalkExcept ==
    /\ pc = "walk_except"
    /\ caught' = caught + 1
    /\ fi' = IF WalkExceptTarget = "walk" THEN fi + 1 ELSE fi
    /\ rframe' = IdleRouter
    /\ hframe' = IdleHelper
    /\ request' = NoRequest
    /\ pc' = WalkExceptTarget
    /\ UNCHANGED <<entry, env, box, result, tree, walk, wi, calls, mvars>>

(***************************************************************************)
(* upload_file_to_box                                                      *)
(***************************************************************************)

\* file_size = self.get_file_size(source_file_path): os.path.getsize returns
\* the size or raises OSError.
RouterGetSize ==
    /\ pc = "router_getsize"
    /\ \/ \E sz \in Sizes :
            /\ rframe' = [rframe EXCEPT !.file_size = sz]
            /\ pc' = "router_select"
       \/ /\ rframe' = [rframe EXCEPT !.exc = "OSError"]
          /\ pc' = "router_raised"
    /\ UNCHANGED <<entry, env, box, result, tree, walk, wi, fi, calls, caught,
                   hframe, request, mvars>>

\* The comparison with the bound included.
SelectSmallInclusive(file_size) == file_size <= Threshold

\* if file_size < 20 * 1024 * 1024
SelectSmall(file_size) == file_size < Threshold

\* The branch: one helper is called with the router's arguments.
RouterSelect ==
    /\ pc = "router_select"
    /\ IF SelectSmall(rframe.file_size)
       THEN /\ hframe' = NewHelper("small", rframe.source_file_path,
                                   rframe.dest_folder_id, rframe.dest_file_name)
            /\ rframe' = [rframe EXCEPT !.invoked = Append(@, "small")]
            /\ pc' = "small_name"
       ELSE /\ hframe' = NewHelper("large", rframe.source_file_path,
                                   rframe.dest_folder_id, rframe.dest_file_name)
            /\ rframe' = [rframe EXCEPT !.invoked = Append(@, "large")]
            /\ pc' = "large_getsize"
    /\ UNCHANGED <<entry, env, box, result, tree, walk, wi, fi, calls, caught,
                   request, mvars>>

\* A router that logs whatever came back.
LogsResultAlways(uploaded_file) == TRUE

\* if uploaded_file: None is falsy, a descriptor is truthy.
LogsResult(uploaded_file) == uploaded_file # NoResult

\* The helper has returned; the router tests its result.
RouterCheck ==
    /\ pc = "router_check"
    /\ pc' = IF LogsResult(rframe.uploaded_file) THEN "router_log" ELSE "router_return"
    /\ UNCHANGED <<entry, env, box, result, tree, walk, wi, fi, calls, caught,
                   rframe, hframe, request, mvars>>

\* print(... uploaded_file.name ... uploaded_file.id): attribute access on
\* None raises AttributeError.
RouterLog ==
    /\ pc = "router_log"
    /\ IF rframe.uploaded_file = NoResult
       THEN /\ rframe' = [rframe EXCEPT !.exc = "AttributeError"]
            /\ pc' = "router_raised"
       ELSE /\ rframe' = rframe
            /\ pc' = "router_return"
    /\ UNCHANGED <<entry, env, box, result, tree, walk, wi, fi, calls, caught,
                   hframe, request, mvars>>

\* upload_file_to_box returns (None) to its caller.
RouterReturn ==
    /\ pc = "router_return"
    /\ IF entry = "script"
       THEN /\ pc' = "walk"
            /\ fi' = fi + 1
            /\ result' = result
       ELSE /\ pc' = "done"
            /\ fi' = fi
            /\ result' = "returned"
    /\ rframe' = IdleRouter
    /\ hframe' = IdleHelper
    /\ request' = NoRequest
    /\ UNCHANGED <<entry, env, box, tree, walk, wi, calls, caught, mvars>>

\* An exception leaves upload_file_to_box: into the per-file handler of the
\* traversal, or out of a direct call.
RouterRaised ==
    /\ pc = "router_raised"
    /\ pc' = IF entry = "script" THEN "walk_except" ELSE "uncaught"
    /\ UNCHANGED <<entry, env, box, result, tree, walk, wi, fi, calls, caught,
                   rframe, hframe, request, mvars>>

(***************************************************************************)
(* upload_small_file_to_folder                                             *)
(***************************************************************************)

\* if not new_name: os.path.basename(file_path) else new_name
SmallRemoteName(file_path, new_name) ==
    IF ~ Truthy(new_name) THEN Basename(file_path) ELSE new_name

SmallName ==
    /\ pc = "small_name"
    /\ hframe' = [hframe EXCEPT
                    !.new_file_name = SmallRemoteName(hframe.file_path, hframe.name_arg)]
    /\ pc' = "small_open"
    /\ UNCHANGED <<entry, env, box, result, tree, walk, wi, fi, calls, caught,
                   rframe, request, mvars>>

\* with open(file_path, "rb") as file: opens or raises OSError, inside the try.
SmallOpen ==
    /\ pc = "small_open"
    /\ \/ /\ pc' = "small_send"
          /\ hframe' = hframe
       \/ /\ pc' = "small_except"
          /\ hframe' = [hframe EXCEPT !.exc = "OSError"]
    /\ UNCHANGED <<entry, env, box, result, tree, walk, wi, fi, calls, caught,
                   rframe, request, mvars>>

\* self.client.uploads.upload_file(UploadFileAttributes(name, parent), file):
\* the SDK returns a descriptor or raises; with no client the attribute
\* access raises before any request.
SmallSend ==
    /\ pc = "small_send"
    /\ IF box.client = None
       THEN /\ request' = request
            /\ hframe' = [hframe EXCEPT !.exc = "AttributeError"]
            /\ pc' = "small_except"
       ELSE /\ request' = [kind |-> "upload_file", name |-> hframe.new_file_name,
                           parent |-> hframe.folder_id, path |-> hframe.file_path,
                           size |-> -1]
            /\ \/ /\ hframe' = [hframe EXCEPT
                                  !.ret = Descriptor("file-id", hframe.new_file_name)]
                  /\ pc' = "small_return"
               \/ /\ hframe' = [hframe EXCEPT !.exc = "BoxAPIError"]
                  /\ pc' = "small_except"
    /\ UNCHANGED <<entry, env, box, result, tree, walk, wi, fi, calls, caught,
                   rframe, mvars>>

\* except Exception as e: print; return None
SmallExcept ==
    /\ pc = "small_except"
    /\ hframe' = [hframe EXCEPT !.ret = NoResult]
    /\ pc' = "small_return"
    /\ UNCHANGED <<entry, env, box, result, tree, walk, wi, fi, calls, caught,
                   rframe, request, mvars>>

(***************************************************************************)
(* upload_large_file_to_folder                                             *)
(***************************************************************************)

\* file_size = os.path.getsize(file_path), before the try: the size, or an
\* OSError that leaves the helper.
LargeGetSize ==
    /\ pc = "large_getsize"
    /\ \/ \E sz \in Sizes :
            /\ hframe' = [hframe EXCEPT !.file_size = sz]
            /\ pc' = "large_open"
       \/ /\ hframe' = [hframe EXCEPT !.exc = "OSError"]
          /\ pc' = "large_raised"
    /\ UNCHANGED <<entry, env, box, result, tree, walk, wi, fi, calls, caught,
                   rframe, request, mvars>>

\* with open(file_path, 'rb') as file_stream: opens or raises, inside the try.
LargeOpen ==
    /\ pc = "large_open"
    /\ \/ /\ pc' = "large_send"
          /\ hframe' = hframe
       \/ /\ pc' = "large_except"
          /\ hframe' = [hframe EXCEPT !.exc = "OSError"]
    /\ UNCHANGED <<entry, env, box, result, tree, walk, wi, fi, calls, caught,
                   rframe, request, mvars>>

\* file_name=file_name: the argument goes to the SDK as it came.
LargeRemoteName(file_path, file_name) == file_name

\* self.client.chunked_uploads.upload_big_file(file, file_name, file_size,
\* parent_folder_id)
LargeSend ==
    /\ pc = "large_send"
    /\ IF box.client = None
       THEN /\ request' = request
            /\ hframe' = [hframe EXCEPT !.exc = "AttributeError"]
            /\ pc' = "large_except"
       ELSE /\ request' = [kind |-> "upload_big_file",
                           name |-> LargeRemoteName(hframe.file_path, hframe.name_arg),
                           parent |-> hframe.folder_id, path |-> hframe.file_path,
                           size |-> hframe.file_size]
            /\ \/ /\ hframe' = [hframe EXCEPT
                                  !.new_file_name =
                                      LargeRemoteName(hframe.file_path, hframe.name_arg),
                                  !.ret = Descriptor("file-id",
                                      LargeRemoteName(hframe.file_path, hframe.name_arg))]
                  /\ pc' = "large_return"
               \/ /\ hframe' = [hframe EXCEPT !.exc = "BoxAPIError"]
                  /\ pc' = "large_except"
    /\ UNCHANGED <<entry, env, box, result, tree, walk, wi, fi, calls, caught,
                   rframe, mvars>>

\* except Exception as e: print; return None
LargeExcept ==
    /\ pc = "large_except"
    /\ hframe' = [hframe EXCEPT !.ret = NoResult]
    /\ pc' = "large_return"
    /\ UNCHANGED <<entry, env, box, result, tree, walk, wi, fi, calls, caught,
                   rframe, request, mvars>>

\* The OSError of os.path.getsize leaves upload_large_file_to_folder.
LargeRaised ==
    /\ pc = "large_raised"
    /\ IF entry \in {"script", "router"}
       THEN /\ rframe' = [rframe EXCEPT !.exc = hframe.exc]
            /\ pc' = "router_raised"
       ELSE /\ rframe' = rframe
            /\ pc' = "uncaught"
    /\ UNCHANGED <<entry, env, box, result, tree, walk, wi, fi, calls, caught,
                   hframe, request, mvars>>

\* A helper returns to the router (uploaded_file = ...) or to a direct caller.
HelperReturn ==
    /\ pc \in {"small_return", "large_return"}
    /\ IF entry \in {"script", "router"}
       THEN /\ rframe' = [rframe EXCEPT !.uploaded_file = hframe.ret]
            /\ pc' = "router_check"
            /\ result' = result
       ELSE /\ rframe' = rframe
            /\ pc' = "done"
            /\ result' = "returned"
    /\ UNCHANGED <<entry, env, box, tree, walk, wi, fi, calls, caught,
                   hframe, request, mvars>>

Next ==
    \/ Construct
    \/ Authenticate
    \/ AuthExcept
    \/ Uncaught
    \/ CallUploadAll
    \/ CallRouter
    \/ CallSmall
    \/ CallLarge
    \/ WalkReturn
    \/ WalkNextDir
    \/ WalkCallRouter
    \/ WalkExcept
    \/ RouterGetSize
    \/ RouterSelect
    \/ RouterCheck
    \/ RouterLog
    \/ RouterReturn
    \/ RouterRaised
    \/ SmallName
    \/ SmallOpen
    \/ SmallSend
    \/ SmallExcept
    \/ LargeGetSize
    \/ LargeOpen
    \/ LargeSend
    \/ LargeExcept
    \/ LargeRaised
    \/ HelperReturn

Spec == Init /\ [][Next]_vars

(***************************************************************************)
(* The capture-acquisition flow: async main()                              *)
(***************************************************************************)

\* Bounds of the media manifest.
MaxGroups == 2
MaxGroupFiles == 2

GroupDirs == <<"100GOPRO", "101GOPRO", "102GOPRO", "103GOPRO">>

\* fs.filename of file f of group g, by components.
CameraPath(g, f) == <<"DCIM", GroupDirs[g], NameOf[f]>>

\* The manifests get_media_list may return: groups of files.
Manifests ==
    { [g \in 1..Len(sz) |-> [f \in 1..sz[g] |-> CameraPath(g, f)]] :
        sz \in UNION { [1..n -> 0..MaxGroupFiles] : n \in 0..MaxGroups } }

\* f'to_upload/{path.split("/")[-1]}'
LocalName(path) == <<"to_upload", path[Len(path)]>>

InitMain ==
    /\ entry = "main"
    /\ env \in Envs
    /\ box = [client_id |-> None, client_secret |-> None, enterprise_id |-> None,
              client |-> None, auth |-> None]
    /\ pc = "idle"
    /\ result = "idle"
    /\ tree = <<>>
    /\ walk = <<>>
    /\ wi = 0
    /\ fi = 0
    /\ calls = <<>>
    /\ caught = 0
    /\ rframe = IdleRouter
    /\ hframe = IdleHelper
    /\ request = NoRequest
    /\ session = "none"
    /\ mpc = "start"
    /\ manifest = <<>>
    /\ gi = 0
    /\ fj = 0
    /\ issued = <<>>
    /\ outcomes = <<>>
    /\ inflight = {}
    /\ mresult = "running"

\* async with WirelessGoPro() as gopro: __aenter__ opens the session or raises.
EnterSession ==
    /\ mpc = "start"
    /\ \/ /\ session' = "open"
          /\ mpc' = "list"
          /\ mresult' = mresult
       \/ /\ session' = session
          /\ mpc' = "done"
          /\ mresult' = "raised"
    /\ UNCHANGED <<uvars, manifest, gi, fj, issued, outcomes, inflight>>

\* A camera operation is issued: awaited, so main() waits for its outcome.
Issue(op) ==
    /\ issued' = Append(issued, op)
    /\ inflight' = inflight \cup {Len(issued) + 1}

\* The awaited operation completes, with "ok" or by raising ("error").
Complete(outcome) ==
    /\ outcomes' = Append(outcomes, outcome)
    /\ inflight' = inflight \ {Len(issued)}

\* A download whose error is swallowed: the loop goes on.
OnCameraErrorContinue(at) == IF at = "await_download" THEN "loop" ELSE "exit_error"

\* No try statement in main(): an exception leaves the async with block.
OnCameraError(at) == "exit_error"

\* resp = await gopro.http_command.get_media_list()
IssueList ==
    /\ mpc = "list"
    /\ Issue([op |-> "get_media_list", camera_file |-> <<>>, local_file |-> <<>>])
    /\ mpc' = "await_list"
    /\ UNCHANGED <<uvars, session, manifest, gi, fj, outcomes, mresult>>

\* media_list = resp.data.media
CompleteList ==
    /\ mpc = "await_list"
    /\ \/ \E m \in Manifests :
            /\ Complete("ok")
            /\ manifest' = m
            /\ gi' = 1
            /\ fj' = 1
            /\ mpc' = "loop"
       \/ /\ Complete("error")
          /\ mpc' = OnCameraError(mpc)
          /\ UNCHANGED <<manifest, gi, fj>>
    /\ UNCHANGED <<uvars, session, issued, mresult>>

\* The loop that stops one group early.
LoopDoneEarly(m, g) == g >= Len(m)

\* for group in media_list: exhausted.
LoopDone(m, g) == g > Len(m)

\* for fs in group.file_system: exhausted, the next group.
NextGroup ==
    /\ mpc = "loop"
    /\ ~ LoopDone(manifest, gi)
    /\ fj > Len(manifest[gi])
    /\ gi' = gi + 1
    /\ fj' = 1
    /\ UNCHANGED <<uvars, session, mpc, manifest, issued, outcomes, inflight, mresult>>

\* await gopro.http_command.download_file(camera_file=path, local_file=local_name)
IssueDownload ==
    /\ mpc = "loop"
    /\ ~ LoopDone(manifest, gi)
    /\ fj <= Len(manifest[gi])
    /\ Issue([op |-> "download_file", camera_file |-> manifest[gi][fj],
              local_file |-> LocalName(manifest[gi][fj])])
    /\ mpc' = "await_download"
    /\ UNCHANGED <<uvars, session, manifest, gi, fj, outcomes, mresult>>

CompleteDownload ==
    /\ mpc = "await_download"
    /\ \/ /\ Complete("ok")
          /\ fj' = fj + 1
          /\ mpc' = "loop"
       \/ /\ Complete("error")
          /\ fj' = fj
          /\ mpc' = OnCameraError(mpc)
    /\ UNCHANGED <<uvars, session, manifest, gi, issued, mresult>>

\* await gopro.http_command.delete_all(), after the loops.
IssueDelete ==
    /\ mpc = "loop"
    /\ LoopDone(manifest, gi)
    /\ Issue([op |-> "delete_all", camera_file |-> <<>>, local_file |-> <<>>])
    /\ mpc' = "await_delete"
    /\ UNCHANGED <<uvars, session, manifest, gi, fj, outcomes, mresult>>

CompleteDelete ==
    /\ mpc = "await_delete"
    /\ \/ /\ Complete("ok")
          /\ mpc' = "exit_ok"
       \/ /\ Complete("error")
          /\ mpc' = OnCameraError(mpc)
    /\ UNCHANGED <<uvars, session, manifest, gi, fj, issued, mresult>>

\* An exit that closes the session only when the block ended normally.
SessionAfterExitLeaks(raised) == IF raised THEN "open" ELSE "closed"

\* __aexit__ of async with: runs on every way out of the block and closes.
SessionAfterExit(raised) == "closed"

\* The async with block is left, normally or by an exception, and main() ends.
ExitSession ==
    /\ mpc \in {"exit_ok", "exit_error"}
    /\ session' = SessionAfterExit(mpc = "exit_error")
    /\ mresult' = IF mpc = "exit_error" THEN "raised" ELSE "returned"
    /\ mpc' = "done"
    /\ UNCHANGED <<uvars, manifest, gi, fj, issued, outcomes, inflight>>

NextMain ==
    \/ EnterSession
    \/ IssueList
    \/ CompleteList
    \/ NextGroup
    \/ IssueDownload
    \/ CompleteDownload
    \/ IssueDelete
    \/ CompleteDelete
    \/ ExitSession

\* Every awaited camera operation ends (returns or raises), so main() always
\* takes its next step.
SpecMain == InitMain /\ [][NextMain]_vars /\ WF_vars(NextMain)

(***************************************************************************)
(* Properties of the upload flow (checked under Spec)                      *)
(***************************************************************************)

\* The top directory the script uploads from.
Top == <<"to_upload">>

\* The router has called a helper and that call is running or has returned.
RouterPastSelect ==
    pc \in {"small_name", "small_open", "small_send", "small_except", "small_return",
            "large_getsize", "large_open", "large_send", "large_except",
            "large_return", "large_raised", "router_check", "router_log",
            "router_return"}

\* C1: a call of upload_file_to_box that read the file's size invokes exactly
\* one upload helper, chosen by the size alone: the single-request helper if
\* and only if the size is strictly less than 20*1024*1024 bytes, the chunked
\* helper otherwise (0 and 20*1024*1024-1 go single-request, 20*1024*1024
\* goes chunked).
C1_RouteBySize ==
    /\ Len(rframe.invoked) <= 1
    /\ (entry \in {"script", "router"} /\ RouterPastSelect) =>
          /\ Len(rframe.invoked) = 1
          /\ hframe.fn = rframe.invoked[1]
          /\ (rframe.invoked[1] = "small") <=> (rframe.file_size < 20 * 1024 * 1024)
          /\ (rframe.invoked[1] = "large") <=> (rframe.file_size >= 20 * 1024 * 1024)
          /\ rframe.file_size \in {0, 20 * 1024 * 1024 - 1} => rframe.invoked = <<"small">>
          /\ rframe.file_size = 20 * 1024 * 1024 => rframe.invoked = <<"large">>

\* C1 witness: a file of exactly 20*1024*1024 bytes went through the chunked
\* helper and the router is returning.
C1_Witness ==
    /\ pc = "router_return"
    /\ rframe.file_size = 20 * 1024 * 1024
    /\ rframe.invoked = <<"large">>
    /\ hframe.fn = "large"

\* The file paths a walk yields, in the order the loops visit them.
RECURSIVE WalkPaths(_)
WalkPaths(w) ==
    IF w = <<>> THEN <<>>
    ELSE [i \in 1..Len(w[1].files) |-> Join(w[1].root, w[1].files[i])]
         \o WalkPaths(Tail(w))

\* upload_all_files_to_box has been entered.
InBulk == entry = "script" /\ wi >= 1

\* C2: in upload_all_files_to_box a failure while processing one file never
\* aborts the traversal: no exception leaves the method, the files attempted
\* so far are always the first files of the walk with none skipped, and when
\* the method has returned every file of the walk was attempted.
C2_FailureIsolated ==
    InBulk =>
        /\ pc # "uncaught"
        /\ result # "raised"
        /\ Len(calls) <= Len(WalkPaths(walk))
        /\ calls = SubSeq(WalkPaths(walk), 1, Len(calls))
        /\ caught <= Len(calls)
        /\ pc = "done" => /\ result = "returned"
                          /\ calls = WalkPaths(walk)

\* C2 witness: the traversal returned after every one of at least two files
\* raised.
C2_Witness ==
    /\ InBulk
    /\ pc = "done"
    /\ result = "returned"
    /\ Len(calls) >= 2
    /\ caught = Len(calls)

\* C3: over a tree of N regular files, upload_all_files_to_box has called
\* upload_file_to_box exactly N times when it returns, once per regular file
\* and never twice for one path, whatever the nesting depth; before that it
\* has called it only for regular files, each at most once.
C3_OneCallPerFile ==
    InBulk =>
        /\ \A i \in 1..Len(calls) : calls[i] \in RegularFiles(tree, Top)
        /\ \A i, j \in 1..Len(calls) : calls[i] = calls[j] => i = j
        /\ pc = "done" =>
              /\ Len(calls) = SumSeq(tree)
              /\ { calls[i] : i \in 1..Len(calls) } = RegularFiles(tree, Top)

\* C3 witness: the traversal returned from a tree with files at the top and
\* two levels down.
C3_Witness ==
    /\ InBulk
    /\ pc = "done"
    /\ Len(tree) = 3
    /\ tree[1] >= 1
    /\ tree[3] >= 1
    /\ Len(calls) = SumSeq(tree)

\* C4 (as claimed): neither upload helper ever raises to its caller, and a
\* helper in which a step failed returns None.
C4_HelpersNeverRaise ==
    /\ pc # "large_raised"
    /\ pc \in {"small_return", "large_return"} =>
          (hframe.exc # None <=> hframe.ret = NoResult)

\* C5 (as claimed): on both upload paths the name sent to the service is the
\* base name of the local file when no name was given (None or empty) and
\* the given name otherwise.
C5_RemoteName ==
    request # NoRequest =>
        request.name = IF Truthy(hframe.name_arg)
                       THEN hframe.name_arg
                       ELSE Basename(hframe.file_path)

\* Box() was built without a client id or without a client secret: none in
\* the environment and none passed.
CredentialsMissing ==
    /\ pc # "new"
    /\ (box.client_id = None \/ box.client_secret = None)

\* No upload was attempted: no router call, no helper call, no request.
NoUploadAttempt ==
    /\ calls = <<>>
    /\ rframe = IdleRouter
    /\ hframe = IdleHelper
    /\ request = NoRequest
    /\ wi = 0

AuthFailed == pc \notin {"new", "authenticate"} /\ box.client = None

C9_SentinelRaises ==
    (entry = "script" /\ pc = "router_return") => rframe.uploaded_file # NoResult

\* C9 (amended): the router tests the helper's result before it logs: the
\* name and id are read only of a descriptor, no AttributeError arises, the
\* per-file handler sees only the OSError of os.path.getsize, and a router
\* handed None returns normally.
C9_SentinelIsChecked ==
    /\ pc = "router_log" => rframe.uploaded_file # NoResult
    /\ rframe.exc # "AttributeError"
    /\ pc \in {"router_raised", "walk_except"} => rframe.exc = "OSError"
    /\ (pc = "router_return" /\ rframe.uploaded_file = NoResult) => rframe.exc = None

\* C9 witness: in bulk upload a helper failed, returned None, and the router
\* is returning normally.
C9_Witness ==
    /\ entry = "script"
    /\ pc = "router_return"
    /\ hframe.exc # None
    /\ rframe.uploaded_file = NoResult
    /\ rframe.exc = None

(***************************************************************************)
(* Properties of the capture-acquisition flow (checked under SpecMain)     *)
(***************************************************************************)

\* The camera paths of a manifest, in manifest order.
RECURSIVE ManifestPaths(_)
ManifestPaths(m) == IF m = <<>> THEN <<>> ELSE m[1] \o ManifestPaths(Tail(m))

\* The indices of the issued operations of one kind.
IssuedOf(op) == { i \in 1..Len(issued) : issued[i].op = op }

\* C7: in main() an error of the manifest fetch, of a download or of the
\* delete call leaves main(): the failed operation is the last one ever
\* issued (no later download, no delete, no retry) and main() ends raising.
C7_ErrorAborts ==
    \A i \in 1..Len(outcomes) :
        outcomes[i] = "error" =>
            /\ i = Len(issued)
            /\ inflight = {}
            /\ mpc \in {"exit_error", "done"}
            /\ mpc = "done" => mresult = "raised"

\* C7 witness: the first of at least two downloads raised and main() ended
\* with the exception after two operations.
C7_Witness ==
    /\ mpc = "done"
    /\ mresult = "raised"
    /\ Len(ManifestPaths(manifest)) >= 2
    /\ Len(issued) = 2
    /\ issued[2].op = "download_file"
    /\ outcomes = <<"ok", "error">>

\* C8: the session opened at the start of main() is released on every way
\* out: once open it is eventually closed, main() never ends with it open,
\* and camera operations are issued and in flight only while it is open.
C8_SessionReleased ==
    /\ [](session = "open" => <>(session = "closed"))
    /\ [](mpc = "done" => session # "open")
    /\ [](inflight # {} => session = "open")
    /\ [][issued' # issued => session = "open" /\ session' = "open"]_vars

\* C8 witness: main() ended with an exception of a camera operation and the
\* session is closed.
C8_Witness ==
    /\ mpc = "done"
    /\ mresult = "raised"
    /\ Len(outcomes) >= 1
    /\ outcomes[Len(outcomes)] = "error"
    /\ session = "closed"

\* C10: delete_all is issued at most once, and only when a download of every
\* file of every group was issued, in manifest order, and returned without
\* error; at most one camera operation is in flight.
C10_DeleteAfterDownloads ==
    /\ Cardinality(inflight) <= 1
    /\ Cardinality(IssuedOf("delete_all")) <= 1
    /\ LET downloads == SelectSeq(issued, LAMBDA o : o.op = "download_file")
       IN  /\ Len(downloads) <= Len(ManifestPaths(manifest))
           /\ \A k \in 1..Len(downloads) :
                 /\ downloads[k].camera_file = ManifestPaths(manifest)[k]
                 /\ downloads[k].local_file = LocalName(downloads[k].camera_file)
           /\ \A d \in IssuedOf("delete_all") :
                 /\ d = Len(issued)
                 /\ Len(downloads) = Len(ManifestPaths(manifest))
                 /\ \A i \in 1..(d - 1) : i <= Len(outcomes) /\ outcomes[i] = "ok"

\* C10 witness: delete_all was issued after the downloads of a manifest of
\* two groups with files in the last one.
C10_Witness ==
    /\ IssuedOf("delete_all") # {}
    /\ Len(manifest) = 2
    /\ Len(manifest[2]) >= 1
    /\ Len(manifest[1]) >= 1
    /\ Cardinality(IssuedOf("download_file")) = Len(ManifestPaths(manifest))

====
